---- MODULE Spec2Model ----
(***************************************************************************)
(* Model of the SEO application's request handlers: the edit lifecycle     *)
(* (routes/seo.js), the analysis request with its local fallback           *)
(* (routes/analyze.js) and the quick-analyze API (routes/api.js).          *)
(*                                                                         *)
(* Node runs one handler at a time and switches between requests only at   *)
(* an `await`.  Each action below is therefore the code of one handler     *)
(* from one await to the next: the statement awaited (a query, an HTTP     *)
(* call) completes, and the handler runs on to its next await or to its    *)
(* response.  A handler's first await is issued when the request arrives,  *)
(* so the arrival and the first awaited statement form one action.         *)
(***************************************************************************)
EXTENDS Integers, Sequences, FiniteSets, TLC

\* ------------------------------------------------------------------ bounds
\* Edit requests served in one behaviour.
MaxRequests == 3
\* Analysis requests served in one behaviour.
MaxAnalysisRequests == 2
\* Rows of seo_edits.
MaxEdits == 2
\* Rows of seo_analyses.
MaxAnalyses == 2
\* Persistence statements (INSERT/UPDATE) that throw in one behaviour.
MaxDbFaults == 1

\* Requests in flight at the same time: a request and one that races with it.
Slots == {1, 2}

\* SQL NULL for ids and timestamps (SERIAL ids and the clock start at 1).
NULL == 0

\* ------------------------------------------------------------------ tables
\* users.id
Users == {1, 2}

\* connected_accounts rows (schema.sql: id, user_id, provider).
connected_accounts ==
    (1 :> [id |-> 1, user_id |-> 1, provider |-> "wordpress"]) @@
    (2 :> [id |-> 2, user_id |-> 2, provider |-> "github"])

\* websites rows as the rows exist after /websites/add: website 1 of user 1
\* with a connected account, website 2 of user 1 without one.  User 2 owns
\* no website and acts as the foreign requester.
InitWebsites ==
    (1 :> [id |-> 1, user_id |-> 1, connected_account_id |-> 1, last_analyzed |-> NULL]) @@
    (2 :> [id |-> 2, user_id |-> 1, connected_account_id |-> NULL, last_analyzed |-> NULL])

\* req.params.websiteId / req.body.websiteId as a client may send it: the id
\* of a row, or an id no row has.
WebsiteParams == {1, 2, 3}

\* req.params.editId as a client may send it.
EditParams == 1..MaxEdits

\* req.body.field_type / suggestion_type.  The handlers read it only to name
\* the key of the pushed content, so one value stands for all.
FieldTypes == {"title"}

\* A URL is the sequence of its characters; <<>> is a missing (or empty) one.
SchemeHttp == <<"h", "t", "t", "p", ":", "/", "/">>
SchemeHttps == <<"h", "t", "t", "p", "s", ":", "/", "/">>
Host == <<"a", ".", "i", "o">>

\* URLs a client may send.
Urls == {<<>>, Host, SchemeHttp \o Host, SchemeHttps \o Host, SchemeHttp, <<"h", "t", "t", "p">>}

\* req.body.url of the requests served: missing, or one without a scheme.
UrlInputs == {<<>>, Host}

\* req.body.websiteId of an analysis request: absent, the id of a website
\* of user 1, or an id no website has.
AnalyzeWebsiteParams == {NULL, 1, 3}

VARIABLES
    websites,   \* table websites: id -> row
    edits,      \* table seo_edits: sequence of rows, row i has id i
    analyses,   \* table seo_analyses: sequence of rows, row i has id i
    now,        \* the last CURRENT_TIMESTAMP handed out
    req,        \* slot -> the request being served there (its locals, its position)
    started,    \* requests that have arrived
    dbFaults    \* persistence statements that have thrown

vars == <<websites, edits, analyses, now, req, started, dbFaults>>

\* ---------------------------------------------------------------- messages
\* A message is the sequence of the parts of its template string.
MsgWebsiteNotFound == <<"Website not found">>
MsgEditSaved == <<"SEO change saved! Click \"Apply\" to push to your site.">>
MsgErrorSaving == <<"Error saving SEO change">>
MsgEditNotFound == <<"Edit not found">>
MsgNoPlatform == <<"No platform connected. Connect a platform first to push changes.">>
MsgApplied(provider) == <<"SEO change applied to ", provider, "! ">>
MsgDemo(provider) ==
    <<"SEO change marked as applied (Demo mode - actual API integration required for ",
      provider, ")">>
MsgErrorApplying == <<"Error applying SEO change">>
MsgAIApplied(provider) == <<"AI suggestion applied to ", provider, "!">>
MsgAISaved == <<"AI suggestion saved. Connect a platform to push to your site.">>
MsgEditCancelled == <<"Edit cancelled">>
MsgNotFoundOrProcessed == <<"Edit not found or already processed">>
MsgErrorCancelling == <<"Error cancelling edit">>
MsgProvideUrl == <<"Please provide a URL to analyze">>
MsgAnalysisError == <<"An error occurred during analysis: ", "error.message">>
MsgAnalysisNotFound == <<"Analysis not found">>
MsgUrlRequired == <<"URL is required">>
MsgCouldNotFetch == <<"Could not fetch URL">>
\* error.message of a statement that threw
MsgException == <<"error.message">>

\* ----------------------------------------------------------------- requests
\* A slot that serves no request.  The fields are the handler's locals:
\*   rows          the rows of the handler's SELECT (editResult.rows,
\*                 websiteResult.rows)
\*   insertedId    editResult.rows[0].id of apply-ai's INSERT ... RETURNING
\*   pushResponse  how the awaited axios.post(/push) ended
\*   res           the response: the flash type (or the JSON success flag) and
\*                 the message
\* and what the collaborators saw of the request:
\*   pushCalls     POST /push calls received by the platform connector
\*   dbWrites      INSERT/UPDATE statements received by the database
\* of an analysis request:
\*   url, normalizedUrl, useMLService, analysisData   as in the handler
\*   analysisId    analysisResult.rows[0].id of INSERT ... RETURNING *
\*   render        the locals handed to res.render / the body of res.json
\*   mlCalls       POST /analyze calls received by the ML service
\*   fetchCalls    GET requests received by the analysed page's server
\*   basicRuns     results returned by performBasicAnalysis
Idle ==
    [kind |-> "idle", pc |-> "idle", userId |-> NULL, editId |-> NULL,
     websiteId |-> NULL, field_type |-> "", rows |-> <<>>, insertedId |-> NULL,
     pushResponse |-> "none", res |-> [type |-> "none", msg |-> <<>>],
     pushCalls |-> 0, dbWrites |-> 0,
     url |-> <<>>, normalizedUrl |-> <<>>, useMLService |-> TRUE,
     analysisData |-> <<>>, analysisId |-> NULL, render |-> <<>>,
     mlCalls |-> 0, fetchCalls |-> 0, basicRuns |-> 0]

\* The handler sends its response and ends.
Respond(q, type, msg) == [q EXCEPT !.pc = "done", !.res = [type |-> type, msg |-> msg]]

\* Requests that have still to run their INSERT INTO seo_edits.
InsertsAhead == Cardinality({r \in Slots : req[r].kind \in {"save", "applyAI"} /\ req[r].pc = "insert"})

\* A request arrives at slot r: the slots are interchangeable, so a request
\* takes the first slot that serves none, or else the first whose request has
\* ended (whose response is then forgotten).
TakesSlot(r) ==
    IF \E o \in Slots : req[o].pc = "idle"
    THEN req[r].pc = "idle" /\ \A o \in Slots : o < r => req[o].pc # "idle"
    ELSE req[r].pc = "done" /\ \A o \in Slots : o < r => req[o].pc # "done"

\* An edit request arrives at slot r.
Arrives(r) == TakesSlot(r) /\ started < MaxRequests

\* An analysis request arrives at slot r.
ArrivesAnalysis(r) == TakesSlot(r) /\ started < MaxAnalysisRequests

\* Whether the persistence statement now executed throws.
DbOutcomes == IF dbFaults < MaxDbFaults THEN {"ok", "throws"} ELSE {"ok"}

\* How an awaited HTTP call to the ML service or to a page ends.
HttpOutcomes == {"ok", "throws"}

\* ------------------------------------------------------------------ queries
\* The SELECT without its  AND user_id = $2.
SelectWebsiteOfAnyUser(websiteId, userId) ==
    IF websiteId \in DOMAIN websites THEN <<websites[websiteId]>> ELSE <<>>

\* SELECT * FROM websites WHERE id = $1 AND user_id = $2
SelectWebsite(websiteId, userId) ==
    IF websiteId \in DOMAIN websites /\ websites[websiteId].user_id = userId
    THEN <<websites[websiteId]>>
    ELSE <<>>

\* The provider column defaulting to a demo provider for a website without a
\* connected account.
JoinProviderOrDemo(w) ==
    IF w.connected_account_id \in DOMAIN connected_accounts
    THEN connected_accounts[w.connected_account_id].provider
    ELSE "demo"

\* ca.provider of  ... LEFT JOIN connected_accounts ca ON w.connected_account_id = ca.id
JoinProvider(w) ==
    IF w.connected_account_id \in DOMAIN connected_accounts
    THEN connected_accounts[w.connected_account_id].provider
    ELSE ""

\* The INSERT preceded by the cancellation of the pending edits of the same
\* website and field.
InsertEditSuperseding(websiteId, userId, field_type) ==
    Append([i \in DOMAIN edits |->
               IF /\ edits[i].website_id = websiteId
                  /\ edits[i].field_type = field_type
                  /\ edits[i].status = "pending"
               THEN [edits[i] EXCEPT !.status = "cancelled"]
               ELSE edits[i]],
           [id |-> Len(edits) + 1, website_id |-> websiteId, user_id |-> userId,
            field_type |-> field_type, status |-> "pending", applied_at |-> NULL])

\* INSERT INTO seo_edits (...) VALUES (..., 'pending'): the table afterwards.
\* applied_at is not listed, so it takes its default, NULL.
InsertEdit(websiteId, userId, field_type) ==
    Append(edits, [id |-> Len(edits) + 1, website_id |-> websiteId, user_id |-> userId,
                   field_type |-> field_type, status |-> "pending", applied_at |-> NULL])


\* The SELECT without its  AND e.user_id = $2.
SelectEditOfAnyUser(editId, userId) ==
    IF /\ editId \in DOMAIN edits
       /\ edits[editId].website_id \in DOMAIN websites
    THEN LET e == edits[editId]
             w == websites[e.website_id]
         IN  <<[id |-> e.id, website_id |-> e.website_id, user_id |-> e.user_id,
                field_type |-> e.field_type, status |-> e.status,
                applied_at |-> e.applied_at,
                connected_account_id |-> w.connected_account_id,
                provider |-> JoinProvider(w)]>>
    ELSE <<>>

\* SELECT e.*, w.connected_account_id, ca.provider FROM seo_edits e
\*   JOIN websites w ON e.website_id = w.id LEFT JOIN connected_accounts ca ...
\*   WHERE e.id = $1 AND e.user_id = $2
SelectEdit(editId, userId) ==
    IF /\ editId \in DOMAIN edits
       /\ edits[editId].user_id = userId
       /\ edits[editId].website_id \in DOMAIN websites
    THEN LET e == edits[editId]
             w == websites[e.website_id]
         IN  <<[id |-> e.id, website_id |-> e.website_id, user_id |-> e.user_id,
                field_type |-> e.field_type, status |-> e.status,
                applied_at |-> e.applied_at,
                connected_account_id |-> w.connected_account_id,
                provider |-> JoinProvider(w)]>>
    ELSE <<>>

\* The UPDATE lost: the table stays as it is.
UpdateAppliedLost(editId) == edits

\* The UPDATE with the condition cancel's UPDATE has: AND status = 'pending'.
UpdateAppliedIfPending(editId) ==
    [i \in DOMAIN edits |->
        IF edits[i].id = editId /\ edits[i].status = "pending"
        THEN [edits[i] EXCEPT !.status = "applied", !.applied_at = now + 1]
        ELSE edits[i]]

\* The UPDATE setting the status alone.
UpdateAppliedStatusOnly(editId) ==
    [i \in DOMAIN edits |->
        IF edits[i].id = editId
        THEN [edits[i] EXCEPT !.status = "applied"]
        ELSE edits[i]]

\* UPDATE seo_edits SET status = 'applied', applied_at = CURRENT_TIMESTAMP
\*   WHERE id = $1: the table afterwards.
UpdateApplied(editId) ==
    [i \in DOMAIN edits |->
        IF edits[i].id = editId
        THEN [edits[i] EXCEPT !.status = "applied", !.applied_at = now + 1]
        ELSE edits[i]]

\* The WHERE clause without its  AND status = 'pending'.
CancelMatchesAnyStatus(editId, userId) ==
    {i \in DOMAIN edits : edits[i].id = editId /\ edits[i].user_id = userId}

\* The rows matched by  WHERE id = $1 AND user_id = $2 AND status = 'pending'.
CancelMatches(editId, userId) ==
    {i \in DOMAIN edits :
        edits[i].id = editId /\ edits[i].user_id = userId /\ edits[i].status = "pending"}

\* UPDATE seo_edits SET status = 'cancelled' WHERE id = $1 AND user_id = $2
\*   AND status = 'pending' RETURNING website_id: the table afterwards.
UpdateCancelled(editId, userId) ==
    [i \in DOMAIN edits |->
        IF i \in CancelMatches(editId, userId)
        THEN [edits[i] EXCEPT !.status = "cancelled"]
        ELSE edits[i]]

\* ------------------------------------------------- POST /seo/edit/:websiteId
\* The request arrives; the ownership SELECT returns.
SaveEdit(r) ==
    \E userId \in Users, websiteId \in WebsiteParams, field_type \in FieldTypes :
        /\ Arrives(r)
        /\ Len(edits) + InsertsAhead < MaxEdits
        /\ LET websiteResult == SelectWebsite(websiteId, userId)
               q == [Idle EXCEPT !.kind = "save", !.userId = userId,
                                 !.websiteId = websiteId, !.field_type = field_type,
                                 !.rows = websiteResult]
           IN  req' = [req EXCEPT ![r] =
                          IF Len(websiteResult) = 0
                          THEN Respond(q, "error", MsgWebsiteNotFound)
                          ELSE [q EXCEPT !.pc = "insert"]]
        /\ started' = started + 1
        /\ UNCHANGED <<websites, edits, analyses, now, dbFaults>>

\* The INSERT returns or throws.
SaveEditInsert(r) ==
    \E db \in DbOutcomes :
        /\ req[r].kind = "save" /\ req[r].pc = "insert"
        /\ LET q == [req[r] EXCEPT !.dbWrites = @ + 1]
           IN  IF db = "throws"
               THEN /\ req' = [req EXCEPT ![r] = Respond(q, "error", MsgErrorSaving)]
                    /\ dbFaults' = dbFaults + 1
                    /\ UNCHANGED edits
               ELSE /\ edits' = InsertEdit(q.websiteId, q.userId, q.field_type)
                    /\ req' = [req EXCEPT ![r] = Respond(q, "success", MsgEditSaved)]
                    /\ UNCHANGED dbFaults
        /\ UNCHANGED <<websites, analyses, now, started>>

\* ---------------------------------------------------- POST /seo/apply/:editId
\* The check left out: the push is tried without an account.
NoConnectedAccountUnchecked(edit) == FALSE

\* !edit.connected_account_id
NoConnectedAccount(edit) == edit.connected_account_id = NULL

\* A failed push tried once more before catch (pushError) is entered.
AfterPushRetry(q, http) ==
    IF http = "ok" THEN "update" ELSE IF q.pushCalls = 0 THEN "push" ELSE "updateDemo"

\* Where the handler goes when axios.post(/push) has ended: on into the try
\* block, or into catch (pushError).
AfterPush(q, http) == IF http = "ok" THEN "update" ELSE "updateDemo"

\* The request arrives; the SELECT of the edit returns.
ApplyEdit(r) ==
    \E userId \in Users, editId \in EditParams :
        /\ Arrives(r)
        /\ LET editResult == SelectEdit(editId, userId)
               q == [Idle EXCEPT !.kind = "apply", !.userId = userId, !.editId = editId,
                                 !.rows = editResult]
           IN  req' = [req EXCEPT ![r] =
                          IF Len(editResult) = 0
                          THEN Respond(q, "error", MsgEditNotFound)
                          ELSE IF NoConnectedAccount(editResult[1])
                          THEN Respond(q, "error", MsgNoPlatform)
                          ELSE [q EXCEPT !.pc = "push"]]
        /\ started' = started + 1
        /\ UNCHANGED <<websites, edits, analyses, now, dbFaults>>

\* axios.post(/push) returns or throws (network error, timeout, error status).
ApplyEditPush(r) ==
    \E http \in HttpOutcomes :
        /\ req[r].kind = "apply" /\ req[r].pc = "push"
        /\ req' = [req EXCEPT ![r] =
                      [@ EXCEPT !.pushCalls = @ + 1, !.pushResponse = http,
                                !.pc = AfterPush(req[r], http)]]
        /\ UNCHANGED <<websites, edits, analyses, now, started, dbFaults>>

\* The UPDATE of the try block returns or throws; a throw lands in
\* catch (pushError), whose own UPDATE is awaited next.
ApplyEditUpdate(r) ==
    \E db \in DbOutcomes :
        /\ req[r].kind = "apply" /\ req[r].pc = "update"
        /\ LET q == [req[r] EXCEPT !.dbWrites = @ + 1]
           IN  IF db = "throws"
               THEN /\ req' = [req EXCEPT ![r] = [q EXCEPT !.pc = "updateDemo"]]
                    /\ dbFaults' = dbFaults + 1
                    /\ UNCHANGED <<edits, now>>
               ELSE /\ edits' = UpdateApplied(q.editId)
                    /\ now' = now + 1
                    /\ req' = [req EXCEPT ![r] =
                                  Respond(q, "success", MsgApplied(q.rows[1].provider))]
                    /\ UNCHANGED dbFaults
        /\ UNCHANGED <<websites, analyses, started>>

\* The UPDATE of catch (pushError) returns or throws; a throw lands in the
\* handler's outer catch.
ApplyEditUpdateDemo(r) ==
    \E db \in DbOutcomes :
        /\ req[r].kind = "apply" /\ req[r].pc = "updateDemo"
        /\ LET q == [req[r] EXCEPT !.dbWrites = @ + 1]
           IN  IF db = "throws"
               THEN /\ req' = [req EXCEPT ![r] = Respond(q, "error", MsgErrorApplying)]
                    /\ dbFaults' = dbFaults + 1
                    /\ UNCHANGED <<edits, now>>
               ELSE /\ edits' = UpdateApplied(q.editId)
                    /\ now' = now + 1
                    /\ req' = [req EXCEPT ![r] =
                                  Respond(q, "success", MsgDemo(q.rows[1].provider))]
                    /\ UNCHANGED dbFaults
        /\ UNCHANGED <<websites, analyses, started>>

\* ------------------------------------------------ POST /seo/apply-ai/:websiteId
\* The request arrives; the SELECT of the website returns.
ApplyAI(r) ==
    \E userId \in Users, websiteId \in WebsiteParams, suggestion_type \in FieldTypes :
        /\ Arrives(r)
        /\ Len(edits) + InsertsAhead < MaxEdits
        /\ LET websiteResult == SelectWebsite(websiteId, userId)
               q == [Idle EXCEPT !.kind = "applyAI", !.userId = userId,
                                 !.websiteId = websiteId, !.field_type = suggestion_type,
                                 !.rows = websiteResult]
           IN  req' = [req EXCEPT ![r] =
                          IF Len(websiteResult) = 0
                          THEN Respond(q, "error", MsgWebsiteNotFound)
                          ELSE [q EXCEPT !.pc = "insert"]]
        /\ started' = started + 1
        /\ UNCHANGED <<websites, edits, analyses, now, dbFaults>>

\* The INSERT ... RETURNING * returns or throws.
ApplyAIInsert(r) ==
    \E db \in DbOutcomes :
        /\ req[r].kind = "applyAI" /\ req[r].pc = "insert"
        /\ LET q == [req[r] EXCEPT !.dbWrites = @ + 1]
           IN  IF db = "throws"
               THEN /\ req' = [req EXCEPT ![r] = Respond(q, "error", MsgException)]
                    /\ dbFaults' = dbFaults + 1
                    /\ UNCHANGED edits
               ELSE /\ edits' = InsertEdit(q.websiteId, q.userId, q.field_type)
                    /\ req' = [req EXCEPT ![r] =
                                  IF JoinProvider(q.rows[1]) # ""
                                  THEN [q EXCEPT !.insertedId = Len(edits) + 1, !.pc = "push"]
                                  ELSE Respond([q EXCEPT !.insertedId = Len(edits) + 1],
                                               "success", MsgAISaved)]
                    /\ UNCHANGED dbFaults
        /\ UNCHANGED <<websites, analyses, now, started>>

\* axios.post(/push) returns or throws; a throw is logged by catch (pushErr)
\* and the handler answers with the 'saved' message.
ApplyAIPush(r) ==
    \E http \in HttpOutcomes :
        /\ req[r].kind = "applyAI" /\ req[r].pc = "push"
        /\ LET q == [req[r] EXCEPT !.pushCalls = @ + 1, !.pushResponse = http]
           IN  req' = [req EXCEPT ![r] =
                          IF http = "ok"
                          THEN [q EXCEPT !.pc = "update"]
                          ELSE Respond(q, "success", MsgAISaved)]
        /\ UNCHANGED <<websites, edits, analyses, now, started, dbFaults>>

\* The UPDATE returns or throws; a throw too lands in catch (pushErr).
ApplyAIUpdate(r) ==
    \E db \in DbOutcomes :
        /\ req[r].kind = "applyAI" /\ req[r].pc = "update"
        /\ LET q == [req[r] EXCEPT !.dbWrites = @ + 1]
           IN  IF db = "throws"
               THEN /\ req' = [req EXCEPT ![r] = Respond(q, "success", MsgAISaved)]
                    /\ dbFaults' = dbFaults + 1
                    /\ UNCHANGED <<edits, now>>
               ELSE /\ edits' = UpdateApplied(q.insertedId)
                    /\ now' = now + 1
                    /\ req' = [req EXCEPT ![r] =
                                  Respond(q, "success",
                                          MsgAIApplied(JoinProvider(q.rows[1])))]
                    /\ UNCHANGED dbFaults
        /\ UNCHANGED <<websites, analyses, started>>

\* --------------------------------------------------- POST /seo/cancel/:editId
\* The request arrives; its one statement, the conditional UPDATE, returns
\* or throws.
CancelEdit(r) ==
    \E userId \in Users, editId \in EditParams, db \in DbOutcomes :
        /\ Arrives(r)
        /\ LET q == [Idle EXCEPT !.kind = "cancel", !.userId = userId, !.editId = editId,
                                 !.dbWrites = 1]
           IN  IF db = "throws"
               THEN /\ req' = [req EXCEPT ![r] = Respond(q, "error", MsgErrorCancelling)]
                    /\ dbFaults' = dbFaults + 1
                    /\ UNCHANGED edits
               ELSE /\ edits' = UpdateCancelled(editId, userId)
                    /\ req' = [req EXCEPT ![r] =
                                  IF CancelMatches(editId, userId) # {}
                                  THEN Respond(q, "success", MsgEditCancelled)
                                  ELSE Respond(q, "error", MsgNotFoundOrProcessed)]
                    /\ UNCHANGED dbFaults
        /\ started' = started + 1
        /\ UNCHANGED <<websites, analyses, now>>

\* ------------------------------------------------------------------ scoring
\* What performBasicAnalysis extracts from a fetched page, as far as the
\* scores and issues read it: the trimmed title's length, the meta
\* description's length, the number of H1 tags, the word count, the viewport
\* flag, and the elapsed fetch time in milliseconds (loadTime = ms / 1000).
PageOf(titleLen, metaLen, h1Count, wordCount, mobile, loadTimeMs) ==
    [title_length |-> titleLen, meta_description_length |-> metaLen,
     h1_count |-> h1Count, word_count |-> wordCount,
     is_mobile_friendly |-> mobile, load_time |-> loadTimeMs]

\* The bounds of the best tier taken as exclusive.
titleScoreExclusive(titleLen) ==
    IF titleLen # 0 THEN (IF titleLen > 30 /\ titleLen < 60 THEN 100 ELSE 60) ELSE 0

\* title ? (title.length >= 30 && title.length <= 60 ? 100 : 60) : 0
titleScore(titleLen) ==
    IF titleLen # 0 THEN (IF titleLen >= 30 /\ titleLen <= 60 THEN 100 ELSE 60) ELSE 0

\* metaDescription ? (length >= 120 && length <= 160 ? 100 : 60) : 0
metaScore(metaLen) ==
    IF metaLen # 0 THEN (IF metaLen >= 120 /\ metaLen <= 160 THEN 100 ELSE 60) ELSE 0

\* Any H1 at all given the best base.
contentScoreAnyH1(h1Count, wordCount) ==
    (IF h1Count > 0 THEN 70 ELSE 20) + (IF wordCount >= 300 THEN 30 ELSE 10)

\* h1Tags.length === 1 ? 70 : (h1Tags.length > 0 ? 50 : 20), then
\* += wordCount >= 300 ? 30 : 10
contentScore(h1Count, wordCount) ==
    (IF h1Count = 1 THEN 70 ELSE IF h1Count > 0 THEN 50 ELSE 20)
        + (IF wordCount >= 300 THEN 30 ELSE 10)

\* The viewport not looked at.
technicalScoreFlat(mobile) == 80

\* isMobileFriendly ? 80 : 40
technicalScore(mobile) == IF mobile THEN 80 ELSE 40

\* loadTime < 2 ? 100 : (loadTime < 4 ? 70 : 40)
performanceScore(loadTimeMs) ==
    IF loadTimeMs < 2000 THEN 100 ELSE IF loadTimeMs < 4000 THEN 70 ELSE 40

\* Math.floor in the place of Math.round.
overallScoreTruncated(t, m, c, tech, perf) ==
    (15 * t + 15 * m + 25 * c + 25 * tech + 20 * perf) \div 100

\* Math.round(t * 0.15 + m * 0.15 + c * 0.25 + tech * 0.25 + perf * 0.20),
\* in hundredths; Math.round rounds a half up.
overallScore(t, m, c, tech, perf) ==
    (15 * t + 15 * m + 25 * c + 25 * tech + 20 * perf + 50) \div 100

\* The last threshold left out: every score below 60 is a 'C'.
gradeOfNoD(overall) ==
    IF overall >= 80 THEN "A" ELSE IF overall >= 60 THEN "B" ELSE "C"

\* overallScore >= 80 ? 'A' : overallScore >= 60 ? 'B' : overallScore >= 40 ? 'C' : 'D'
gradeOf(overall) ==
    IF overall >= 80 THEN "A" ELSE IF overall >= 60 THEN "B"
    ELSE IF overall >= 40 THEN "C" ELSE "D"

Issue(type, category, message) == [type |-> type, category |-> category, message |-> message]

\* The word-count rule run before the H1 rules.
generateBasicIssuesThinFirst(titleLen, metaLen, h1Count, wordCount, mobileFriendly, loadTimeMs) ==
    (IF titleLen = 0 THEN <<Issue("critical", "title", "Missing page title")>>
     ELSE IF titleLen < 30 THEN <<Issue("warning", "title", "Title too short")>>
     ELSE IF titleLen > 60 THEN <<Issue("warning", "title", "Title too long")>>
     ELSE <<>>)
    \o (IF metaLen = 0 THEN <<Issue("critical", "meta", "Missing meta description")>>
        ELSE <<>>)
    \o (IF wordCount < 300 THEN <<Issue("warning", "content", "Thin content")>> ELSE <<>>)
    \o (IF h1Count = 0 THEN <<Issue("critical", "content", "Missing H1 heading")>>
        ELSE IF h1Count > 1 THEN <<Issue("warning", "content", "Multiple H1 tags")>>
        ELSE <<>>)
    \o (IF ~mobileFriendly THEN <<Issue("critical", "technical", "Not mobile-friendly")>>
        ELSE <<>>)
    \o (IF loadTimeMs > 3000 THEN <<Issue("warning", "performance", "Slow load time")>>
        ELSE <<>>)

\* The severity sort applied to the whole list: the critical issues of every
\* category first, then the warnings.
generateBasicIssuesBySeverity(titleLen, metaLen, h1Count, wordCount, mobileFriendly, loadTimeMs) ==
    (IF titleLen = 0 THEN <<Issue("critical", "title", "Missing page title")>> ELSE <<>>)
    \o (IF metaLen = 0 THEN <<Issue("critical", "meta", "Missing meta description")>>
        ELSE <<>>)
    \o (IF h1Count = 0 THEN <<Issue("critical", "content", "Missing H1 heading")>> ELSE <<>>)
    \o (IF ~mobileFriendly THEN <<Issue("critical", "technical", "Not mobile-friendly")>>
        ELSE <<>>)
    \o (IF titleLen # 0 /\ titleLen < 30 THEN <<Issue("warning", "title", "Title too short")>>
        ELSE IF titleLen > 60 THEN <<Issue("warning", "title", "Title too long")>>
        ELSE <<>>)
    \o (IF h1Count > 1 THEN <<Issue("warning", "content", "Multiple H1 tags")>> ELSE <<>>)
    \o (IF wordCount < 300 THEN <<Issue("warning", "content", "Thin content")>> ELSE <<>>)
    \o (IF loadTimeMs > 3000 THEN <<Issue("warning", "performance", "Slow load time")>>
        ELSE <<>>)

generateBasicIssues(titleLen, metaLen, h1Count, wordCount, mobileFriendly, loadTimeMs) ==
    (IF titleLen = 0 THEN <<Issue("critical", "title", "Missing page title")>>
     ELSE IF titleLen < 30 THEN <<Issue("warning", "title", "Title too short")>>
     ELSE IF titleLen > 60 THEN <<Issue("warning", "title", "Title too long")>>
     ELSE <<>>)
    \o (IF metaLen = 0 THEN <<Issue("critical", "meta", "Missing meta description")>>
        ELSE <<>>)
    \o (IF h1Count = 0 THEN <<Issue("critical", "content", "Missing H1 heading")>>
        ELSE IF h1Count > 1 THEN <<Issue("warning", "content", "Multiple H1 tags")>>
        ELSE <<>>)
    \o (IF wordCount < 300 THEN <<Issue("warning", "content", "Thin content")>> ELSE <<>>)
    \o (IF ~mobileFriendly THEN <<Issue("critical", "technical", "Not mobile-friendly")>>
        ELSE <<>>)
    \o (IF loadTimeMs > 3000 THEN <<Issue("warning", "performance", "Slow load time")>>
        ELSE <<>>)

\* The result under camel-case keys, as the handler's own locals are named.
performBasicAnalysisCamel(url, page) ==
    LET t == titleScore(page.title_length)
        m == metaScore(page.meta_description_length)
        c == contentScore(page.h1_count, page.word_count)
        tech == technicalScore(page.is_mobile_friendly)
        perf == performanceScore(page.load_time)
        overall == overallScore(t, m, c, tech, perf)
    IN  [url |-> url,
         loadTime |-> page.load_time,
         overallScore |-> overall,
         scores |-> [titleScore |-> t, metaScore |-> m, contentScore |-> c,
                     technicalScore |-> tech, performanceScore |-> perf],
         features |-> page,
         issues |-> generateBasicIssues(page.title_length, page.meta_description_length,
                                        page.h1_count, page.word_count,
                                        page.is_mobile_friendly, page.load_time),
         suggestions |-> <<>>,
         grade |-> gradeOf(overall)]

\* The object performBasicAnalysis returns for a page it fetched.
performBasicAnalysis(url, page) ==
    LET t == titleScore(page.title_length)
        m == metaScore(page.meta_description_length)
        c == contentScore(page.h1_count, page.word_count)
        tech == technicalScore(page.is_mobile_friendly)
        perf == performanceScore(page.load_time)
        overall == overallScore(t, m, c, tech, perf)
    IN  [url |-> url,
         load_time |-> page.load_time,
         overall_score |-> overall,
         scores |-> [title |-> t, meta |-> m, content |-> c, technical |-> tech,
                     performance |-> perf, social |-> 0],
         features |-> page,
         issues |-> generateBasicIssues(page.title_length, page.meta_description_length,
                                        page.h1_count, page.word_count,
                                        page.is_mobile_friendly, page.load_time),
         suggestions |-> <<>>,
         grade |-> gradeOf(overall)]

\* The pages of spec examples 1 and 2, and a page on which every rule fails:
\* no title, no meta description, no H1, thin, no viewport, four seconds.
PageExample1 == PageOf(4, 0, 0, 120, FALSE, 3500)
PageExample2 == PageOf(45, 140, 1, 500, TRUE, 1200)
PagePoor == PageOf(0, 0, 0, 120, FALSE, 4000)

\* The pages that answer a fetch in an analysis request: a good one and a
\* poor one.
SamplePages == {PageExample2, PagePoor}

\* ------------------------------------------------------------- ML service
\* Bodies of a 2xx answer to POST /analyze: one of the documented shape, and
\* one without any of its keys (an error object, an HTML page of a proxy).
MLWellFormed ==
    [overall_score |-> 72, grade |-> "B",
     scores |-> [title |-> 100, meta |-> 60, content |-> 80, technical |-> 70,
                 performance |-> 70, social |-> 50],
     features |-> PageOf(45, 90, 1, 500, TRUE, 2500),
     issues |-> <<Issue("warning", "meta", "Meta description too short")>>,
     suggestions |-> <<>>]
MLMalformed == [error |-> "Internal error"]
MLBodies == {MLWellFormed, MLMalformed}

\* Whether a body has the documented shape.
WellFormed(data) == {"overall_score", "grade", "scores", "features", "issues"} \subseteq DOMAIN data

\* obj?.key || dflt : the key's value, dflt when obj is undefined or lacks it.
Get(obj, key, dflt) == IF key \in DOMAIN obj THEN obj[key] ELSE dflt

\* ------------------------------------------------------------ POST /analyze
\* The check left out.
MissingUnchecked(url) == FALSE

\* !url
Missing(url) == url = <<>>

\* The throw swallowed: the handler goes on to the INSERT with what it has.
AnalysisThrowsSwallowed(q) == [q EXCEPT !.pc = "insert"]

\* The throw answered with a result page of the scores at hand.
AnalysisThrowsRendered(q) ==
    [Respond(q, "render", <<>>) EXCEPT
        !.render = [scores |-> Get(q.analysisData, "scores", <<>>)]]

\* The handler's catch: what a throw of performBasicAnalysis (or of a query)
\* leads to.
AnalysisThrows(q) == Respond(q, "error", MsgAnalysisError)

\* !normalizedUrl.startsWith(prefix)
StartsWith(str, prefix) ==
    Len(str) >= Len(prefix) /\ SubSeq(str, 1, Len(prefix)) = prefix

\* Only the https:// prefix looked for.
NormalizeUrlHttpsOnly(url) ==
    IF ~StartsWith(url, SchemeHttps)
    THEN SchemeHttps \o url
    ELSE url

\* The normalization of lines 29-33.
NormalizeUrl(url) ==
    IF ~StartsWith(url, SchemeHttp) /\ ~StartsWith(url, SchemeHttps)
    THEN SchemeHttps \o url
    ELSE url

\* The row INSERT INTO seo_analyses ... RETURNING * stores, with the columns
\* the score breakdown, the issues and the owner live in.
AnalysisRow(id, websiteId, userId, normalizedUrl, analysisData) ==
    LET scores == Get(analysisData, "scores", <<>>)
        features == Get(analysisData, "features", <<>>)
        overall == Get(analysisData, "overall_score", 0)
    IN  [id |-> id,
         website_id |-> websiteId,
         user_id |-> userId,
         url |-> normalizedUrl,
         overall_score |-> IF overall # 0 THEN overall ELSE Get(scores, "overall", 0),
         title_score |-> Get(scores, "title", 0),
         meta_score |-> Get(scores, "meta", 0),
         content_score |-> Get(scores, "content", 0),
         technical_score |-> Get(scores, "technical", 0),
         performance_score |-> Get(scores, "performance", 0),
         word_count |-> Get(features, "word_count", 0),
         is_mobile_friendly |-> Get(features, "is_mobile_friendly", FALSE),
         issues |-> Get(analysisData, "issues", <<>>),
         suggestions |-> Get(analysisData, "suggestions", <<>>)]

\* The locals of res.render('analyze/result', ...).
RenderResult(row, analysisData, useMLService) ==
    LET scores == Get(analysisData, "scores", <<>>)
    IN  [analysis |-> row,
         scores |-> [overall |-> Get(analysisData, "overall_score", 0),
                     title |-> Get(scores, "title", 0),
                     meta |-> Get(scores, "meta", 0),
                     content |-> Get(scores, "content", 0),
                     technical |-> Get(scores, "technical", 0),
                     performance |-> Get(scores, "performance", 0),
                     social |-> Get(scores, "social", 0)],
         grade |-> Get(analysisData, "grade", "N/A"),
         issues |-> Get(analysisData, "issues", <<>>),
         useML |-> useMLService]

\* Requests that have still to run their INSERT INTO seo_analyses.
AnalysesAhead ==
    Cardinality({r \in Slots : req[r].kind = "analyze" /\ req[r].pc \in {"ml", "fetch", "insert"}})

\* The request arrives; a missing URL is refused, otherwise the URL is
\* normalized and POST /analyze of the ML service is awaited.
Analyze(r) ==
    \E userId \in Users, url \in UrlInputs, websiteId \in AnalyzeWebsiteParams :
        /\ ArrivesAnalysis(r)
        /\ Len(analyses) + AnalysesAhead < MaxAnalyses
        /\ LET q == [Idle EXCEPT !.kind = "analyze", !.userId = userId, !.url = url,
                                 !.websiteId = websiteId]
           IN  req' = [req EXCEPT ![r] =
                          IF Missing(url)
                          THEN Respond(q, "error", MsgProvideUrl)
                          ELSE [q EXCEPT !.normalizedUrl = NormalizeUrl(url), !.pc = "ml"]]
        /\ started' = started + 1
        /\ UNCHANGED <<websites, edits, analyses, now, dbFaults>>

\* POST /analyze returns a body or throws (service down, timeout, error
\* status); only a throw clears useMLService and starts the basic analysis.
AnalyzeML(r) ==
    \E http \in HttpOutcomes, body \in MLBodies :
        /\ req[r].kind = "analyze" /\ req[r].pc = "ml"
        /\ LET q == [req[r] EXCEPT !.mlCalls = @ + 1]
           IN  req' = [req EXCEPT ![r] =
                          IF http = "ok"
                          THEN [q EXCEPT !.analysisData = body, !.pc = "insert"]
                          ELSE [q EXCEPT !.useMLService = FALSE, !.pc = "fetch"]]
        /\ UNCHANGED <<websites, edits, analyses, now, started, dbFaults>>

\* The axios.get of performBasicAnalysis returns a page or throws (network
\* error, timeout, non-2xx status); the throw leaves performBasicAnalysis and
\* lands in the handler's catch.
AnalyzeFetch(r) ==
    \E http \in HttpOutcomes, page \in SamplePages :
        /\ req[r].kind = "analyze" /\ req[r].pc = "fetch"
        /\ LET q == [req[r] EXCEPT !.fetchCalls = @ + 1]
           IN  req' = [req EXCEPT ![r] =
                          IF http = "throws"
                          THEN AnalysisThrows(q)
                          ELSE [q EXCEPT !.analysisData =
                                             performBasicAnalysis(q.normalizedUrl, page),
                                         !.basicRuns = @ + 1,
                                         !.pc = "insert"]]
        /\ UNCHANGED <<websites, edits, analyses, now, started, dbFaults>>

\* The INSERT returns or throws (website_id references websites(id), so an id
\* no website has is refused too).
AnalyzeInsert(r) ==
    \E db \in DbOutcomes :
        /\ req[r].kind = "analyze" /\ req[r].pc = "insert"
        /\ LET q == [req[r] EXCEPT !.dbWrites = @ + 1]
               id == Len(analyses) + 1
               row == AnalysisRow(id, q.websiteId, q.userId, q.normalizedUrl, q.analysisData)
               foreignKey == q.websiteId = NULL \/ q.websiteId \in DOMAIN websites
           IN  IF db = "throws" \/ ~foreignKey
               THEN /\ req' = [req EXCEPT ![r] = AnalysisThrows(q)]
                    /\ dbFaults' = IF db = "throws" THEN dbFaults + 1 ELSE dbFaults
                    /\ UNCHANGED analyses
               ELSE /\ analyses' = Append(analyses, row)
                    /\ req' = [req EXCEPT ![r] =
                                  IF q.websiteId # NULL
                                  THEN [q EXCEPT !.analysisId = id, !.pc = "marker"]
                                  ELSE [Respond(q, "render", <<>>) EXCEPT
                                            !.analysisId = id,
                                            !.render = RenderResult(row, q.analysisData,
                                                                    q.useMLService)]]
                    /\ UNCHANGED dbFaults
        /\ UNCHANGED <<websites, edits, now, started>>

\* The UPDATE without its WHERE clause.
UpdateLastAnalyzedAll(websiteId) ==
    [w \in DOMAIN websites |-> [websites[w] EXCEPT !.last_analyzed = now + 1]]

\* UPDATE websites SET last_analyzed = CURRENT_TIMESTAMP WHERE id = $1
UpdateLastAnalyzed(websiteId) ==
    [w \in DOMAIN websites |->
        IF websites[w].id = websiteId
        THEN [websites[w] EXCEPT !.last_analyzed = now + 1]
        ELSE websites[w]]

\* The UPDATE of the marker returns or throws; then the result is rendered.
AnalyzeMarker(r) ==
    \E db \in DbOutcomes :
        /\ req[r].kind = "analyze" /\ req[r].pc = "marker"
        /\ LET q == [req[r] EXCEPT !.dbWrites = @ + 1]
           IN  IF db = "throws"
               THEN /\ req' = [req EXCEPT ![r] = AnalysisThrows(q)]
                    /\ dbFaults' = dbFaults + 1
                    /\ UNCHANGED <<websites, now>>
               ELSE /\ websites' = UpdateLastAnalyzed(q.websiteId)
                    /\ now' = now + 1
                    /\ req' = [req EXCEPT ![r] =
                                  [Respond(q, "render", <<>>) EXCEPT
                                      !.render = RenderResult(analyses[q.analysisId],
                                                              q.analysisData,
                                                              q.useMLService)]]
                    /\ UNCHANGED dbFaults
        /\ UNCHANGED <<edits, analyses, started>>

\* ---------------------------------------------------------- GET /analyze/:id
\* req.params.id of a view request.
AnalysisParams == 1..MaxAnalyses

\* SELECT * FROM seo_analyses WHERE id = $1 AND user_id = $2
SelectAnalysis(id, userId) ==
    SelectSeq(analyses, LAMBDA row : row.id = id /\ row.user_id = userId)

\* analysis.overall_score >= 80 ? 'A' : analysis.overall_score >= 60 ? 'B' : 'C'
viewGrade(overall_score) ==
    IF overall_score >= 80 THEN "A" ELSE IF overall_score >= 60 THEN "B" ELSE "C"

\* The locals of the view's res.render('analyze/result', ...).
ViewResult(analysis) ==
    [analysis |-> analysis,
     scores |-> [overall |-> analysis.overall_score,
                 title |-> analysis.title_score,
                 meta |-> analysis.meta_score,
                 content |-> analysis.content_score,
                 technical |-> analysis.technical_score,
                 performance |-> analysis.performance_score,
                 social |-> 0],
     grade |-> viewGrade(analysis.overall_score),
     issues |-> analysis.issues,
     useML |-> FALSE]

\* The request arrives; the SELECT returns and the stored analysis is
\* rendered, or was not found.
ViewAnalysis(r) ==
    \E userId \in Users, id \in AnalysisParams :
        /\ ArrivesAnalysis(r)
        /\ LET result == SelectAnalysis(id, userId)
               q == [Idle EXCEPT !.kind = "view", !.userId = userId, !.analysisId = id,
                                 !.rows = result]
           IN  req' = [req EXCEPT ![r] =
                          IF Len(result) = 0
                          THEN Respond(q, "error", MsgAnalysisNotFound)
                          ELSE [Respond(q, "render", <<>>) EXCEPT
                                    !.render = ViewResult(result[1])]]
        /\ started' = started + 1
        /\ UNCHANGED <<websites, edits, analyses, now, dbFaults>>

\* -------------------------------------------------------- POST /api/analyze
\* The quick score of lines 42-51.
quickScore(page) ==
    LET score == 50
            + (IF page.title_length >= 30 /\ page.title_length <= 60 THEN 15 ELSE 0)
            + (IF page.meta_description_length >= 120 /\ page.meta_description_length <= 160
               THEN 15 ELSE 0)
            + (IF page.h1_count = 1 THEN 10 ELSE 0)
            + (IF page.load_time < 2000 THEN 10 ELSE 0)
    IN  IF score < 100 THEN score ELSE 100

\* The request arrives; a missing URL is answered 400, otherwise the URL is
\* normalized and the page fetch is awaited.
QuickAnalyze(r) ==
    \E url \in UrlInputs :
        /\ ArrivesAnalysis(r)
        /\ LET q == [Idle EXCEPT !.kind = "quick", !.url = url]
           IN  req' = [req EXCEPT ![r] =
                          IF Missing(url)
                          THEN Respond(q, "400", MsgUrlRequired)
                          ELSE [q EXCEPT !.normalizedUrl = NormalizeUrl(url), !.pc = "fetch"]]
        /\ started' = started + 1
        /\ UNCHANGED <<websites, edits, analyses, now, dbFaults>>

\* axios.get returns a page or throws.
QuickAnalyzeFetch(r) ==
    \E http \in HttpOutcomes, page \in SamplePages :
        /\ req[r].kind = "quick" /\ req[r].pc = "fetch"
        /\ LET q == [req[r] EXCEPT !.fetchCalls = @ + 1]
           IN  req' = [req EXCEPT ![r] =
                          IF http = "throws"
                          THEN Respond(q, "400", MsgCouldNotFetch)
                          ELSE [Respond(q, "json", <<>>) EXCEPT
                                    !.render = [url |-> q.normalizedUrl,
                                                score |-> quickScore(page),
                                                h1Count |-> page.h1_count,
                                                loadTime |-> page.load_time]]]
        /\ UNCHANGED <<websites, edits, analyses, now, started, dbFaults>>

\* ------------------------------------------------------------ specification
Init ==
    /\ websites = InitWebsites
    /\ edits = <<>>
    /\ analyses = <<>>
    /\ now = 0
    /\ req = [r \in Slots |-> Idle]
    /\ started = 0
    /\ dbFaults = 0

Next ==
    \E r \in Slots :
        \/ SaveEdit(r)
        \/ SaveEditInsert(r)
        \/ ApplyEdit(r)
        \/ ApplyEditPush(r)
        \/ ApplyEditUpdate(r)
        \/ ApplyEditUpdateDemo(r)
        \/ ApplyAI(r)
        \/ ApplyAIInsert(r)
        \/ ApplyAIPush(r)
        \/ ApplyAIUpdate(r)
        \/ CancelEdit(r)

\* The edit lifecycle: save-edit, apply, apply-AI-suggestion and cancel
\* requests, by any users, in any order, two at a time.
Spec == Init /\ [][Next]_vars

\* The analysis requests.  They share no table with the edit lifecycle but
\* websites, of which they write last_analyzed, a column no edit handler
\* reads; so they are checked on their own.
NextAnalysis ==
    \E r \in Slots :
        \/ Analyze(r)
        \/ AnalyzeML(r)
        \/ AnalyzeFetch(r)
        \/ AnalyzeInsert(r)
        \/ AnalyzeMarker(r)
        \/ ViewAnalysis(r)
        \/ QuickAnalyze(r)
        \/ QuickAnalyzeFetch(r)

SpecAnalysis == Init /\ [][NextAnalysis]_vars


\* =================================================================== claims
\* The request that arrives in this step, if one does, is at slot r.
ArrivalAt(r) == started' = started + 1 /\ TakesSlot(r)

ApplyDone(r) == req[r].kind = "apply" /\ req[r].pc = "done"
CancelDone(r) == req[r].kind = "cancel" /\ req[r].pc = "done"

\* The response of a handler whose outer catch ran (a statement threw).
Caught(q) == q.res.msg \in {MsgErrorSaving, MsgErrorApplying, MsgErrorCancelling,
                           MsgException, MsgAnalysisError}

\* ------------------------------------------------------------------------
\* C1: a record's status changes only pending -> applied or pending ->
\* cancelled, and a record whose status is applied or cancelled never changes
\* status again; in particular a cancelled record is never turned into applied
\* by a later apply request: a record that an apply request found applied or
\* cancelled when it read it keeps that status.  (Violated: apply's UPDATE has
\* no condition on status.)
C1_TerminalStatusIsFinal ==
    \A r \in Slots :
        (/\ req[r].kind = "apply" /\ Len(req[r].rows) = 1
         /\ req[r].rows[1].status \in {"applied", "cancelled"})
            => edits[req[r].editId].status = req[r].rows[1].status

\* ------------------------------------------------------------------------
\* C2: a cancel request on a record that is not pending (applied, cancelled,
\* or no record) leaves the table seo_edits as it is and, its UPDATE having
\* run, answers 'Edit not found or already processed'; a cancel request of
\* the owner on a pending record makes that record cancelled, changes nothing
\* else, and answers 'Edit cancelled'.  So of two cancel requests on one
\* pending id the first cancels and the second changes nothing.
C2_CancelOnlyFromPending ==
    [][\A r \in Slots :
          (ArrivalAt(r) /\ req'[r].kind = "cancel") =>
              LET q == req'[r]
                  e == q.editId
                  pending == e \in DOMAIN edits /\ edits[e].status = "pending"
              IN  /\ ~pending =>
                        /\ edits' = edits
                        /\ ~Caught(q) =>
                              q.res = [type |-> "error", msg |-> MsgNotFoundOrProcessed]
                  /\ (pending /\ edits[e].user_id = q.userId /\ ~Caught(q)) =>
                        /\ edits' = [edits EXCEPT ![e].status = "cancelled"]
                        /\ q.res = [type |-> "success", msg |-> MsgEditCancelled]]_vars

\* Two cancel requests of the owner on one id have ended: one answered 'Edit
\* cancelled', the other 'Edit not found or already processed'.
C2_Witness ==
    \E r1, r2 \in Slots :
        /\ CancelDone(r1) /\ CancelDone(r2) /\ r1 # r2
        /\ req[r1].editId = req[r2].editId /\ req[r1].userId = req[r2].userId
        /\ req[r1].res.msg = MsgEditCancelled
        /\ req[r2].res.msg = MsgNotFoundOrProcessed
        /\ edits[req[r1].editId].status = "cancelled"

\* ------------------------------------------------------------------------
\* C3: an apply request for an edit whose website has a connected account,
\* whose push call failed and whose UPDATE ran, has marked the record applied
\* with applied_at set and answers with the success message flagged as demo
\* mode.
C3_FailedPushStillApplied ==
    \A r \in Slots :
        (ApplyDone(r) /\ req[r].pushResponse = "throws" /\ ~Caught(req[r])) =>
            /\ edits[req[r].editId].status = "applied"
            /\ edits[req[r].editId].applied_at # NULL
            /\ req[r].res = [type |-> "success", msg |-> MsgDemo(req[r].rows[1].provider)]

\* An apply request that read a pending edit, whose push failed, has ended
\* with the demo message.
C3_Witness ==
    \E r \in Slots :
        /\ ApplyDone(r) /\ req[r].pushResponse = "throws"
        /\ req[r].rows[1].status = "pending"
        /\ req[r].rows[1].connected_account_id # NULL
        /\ req[r].res.msg = MsgDemo("wordpress")
        /\ edits[req[r].editId].status = "applied"

\* ------------------------------------------------------------------------
\* An apply request that has read a pending edit of a website without a
\* connected account.
ApplyWithoutAccount(r) ==
    /\ ApplyDone(r) /\ Len(req[r].rows) = 1
    /\ req[r].rows[1].status = "pending"
    /\ req[r].rows[1].connected_account_id = NULL

CancelRacedApply(ra, rc) ==
    /\ ApplyDone(ra) /\ req[ra].res.type = "success"
    /\ req[ra].rows[1].status = "pending"
    /\ CancelDone(rc) /\ req[rc].res = [type |-> "success", msg |-> MsgEditCancelled]
    /\ req[rc].editId = req[ra].editId

\* C5: apply and cancel on one pending record are not mutually excluded:
\* when the cancel succeeded ('Edit cancelled') after the apply request had
\* read the record, the apply request afterwards overwrites the status, and
\* the record ends applied.
C5_ApplyOverwritesCancel ==
    \A ra, rc \in Slots :
        CancelRacedApply(ra, rc) =>
            /\ edits[req[ra].editId].status = "applied"
            /\ edits[req[ra].editId].applied_at # NULL

\* The interleaving happens.
C5_Witness ==
    \E ra, rc \in Slots :
        CancelRacedApply(ra, rc) /\ edits[req[ra].editId].status = "applied"

\* ------------------------------------------------------------------------
\* C6: each apply request makes at most one push call: once the call has
\* ended, failed or not, exactly one was made, and the request that has ended
\* makes none afterwards.
C6_OnePushPerApply ==
    \A r \in Slots :
        req[r].kind = "apply" =>
            /\ req[r].pushCalls <= 1
            /\ req[r].pushResponse # "none" => req[r].pushCalls = 1
            /\ req[r].pc \in {"update", "updateDemo"} => req[r].pushCalls = 1

\* An apply request whose push failed has ended, one call made.
C6_Witness ==
    \E r \in Slots :
        ApplyDone(r) /\ req[r].pushResponse = "throws" /\ req[r].pushCalls = 1

\* ------------------------------------------------------------------------
SavesEdit(q) == q.kind \in {"save", "applyAI"}
Owned(websiteId, userId) ==
    websiteId \in DOMAIN websites /\ websites[websiteId].user_id = userId

\* The INSERT of the save-edit or apply-AI request at r returns or throws in
\* this step.
InsertStep(r) == SavesEdit(req[r]) /\ req[r].pc = "insert" /\ req'[r].pc # "insert"

\* C7: the INSERT of a save-edit request (and of an apply-AI-suggestion
\* request) for a website of the requesting user, when it does not throw,
\* adds exactly one row, with status pending and applied_at unset, and
\* changes no other row; rows are added by nothing else; and a request for a
\* website that does not exist or is another user's is answered 'Website not
\* found' on arrival and never reaches the INSERT.
C7_SaveCreatesOnePending ==
    [][/\ \A r \in Slots :
            InsertStep(r) =>
                IF Caught(req'[r])
                THEN edits' = edits
                ELSE /\ Owned(req[r].websiteId, req[r].userId)
                     /\ edits' = Append(edits,
                            [id |-> Len(edits) + 1, website_id |-> req[r].websiteId,
                             user_id |-> req[r].userId, field_type |-> req[r].field_type,
                             status |-> "pending", applied_at |-> NULL])
       /\ Len(edits') # Len(edits) => \E r \in Slots : InsertStep(r)
       /\ \A r \in Slots :
            (/\ ArrivalAt(r) /\ SavesEdit(req'[r])
             /\ ~Owned(req'[r].websiteId, req'[r].userId)) =>
                /\ req'[r].pc = "done"
                /\ req'[r].res = [type |-> "error", msg |-> MsgWebsiteNotFound]
                /\ req'[r].dbWrites = 0
                /\ edits' = edits]_vars

\* A save-edit request and an apply-AI request have each added a row, and
\* both rows are pending.
C7_Witness ==
    \E r1, r2 \in Slots :
        /\ req[r1].kind = "save" /\ req[r1].res.msg = MsgEditSaved
        /\ req[r2].kind = "applyAI" /\ req[r2].insertedId # NULL
        /\ Len(edits) = 2
        /\ \A i \in DOMAIN edits : edits[i].status = "pending" /\ edits[i].applied_at = NULL

\* ------------------------------------------------------------------------
\* What the local analysis returns for the URL.
BasicResults(url) == {performBasicAnalysis(url, page) : page \in SamplePages}

\* C8: in an analysis request that has rendered its result the primary
\* backend was called exactly once; when that call yielded a well-formed
\* result the local analysis did not run; on any failure of the call (a
\* throw, or a malformed response) the local analysis ran exactly once
\* against a freshly fetched page and its result is what was persisted.
\* (Violated: a 2xx answer with a malformed body is taken as the result.)
C8_FallbackOnAnyFailure ==
    \A r \in Slots :
        (req[r].kind = "analyze" /\ req[r].res.type = "render") =>
            LET q == req[r]
            IN  /\ q.mlCalls = 1
                /\ IF q.useMLService /\ WellFormed(q.analysisData)
                   THEN q.basicRuns = 0 /\ q.fetchCalls = 0
                   ELSE /\ q.basicRuns = 1 /\ q.fetchCalls = 1
                        /\ q.analysisData \in BasicResults(q.normalizedUrl)
                        /\ analyses[q.analysisId] =
                              AnalysisRow(q.analysisId, q.websiteId, q.userId,
                                          q.normalizedUrl, q.analysisData)

\* ------------------------------------------------------------------------
\* The page fetch of the analysis request at r has failed.
FetchFailed(q) == q.kind = "analyze" /\ q.fetchCalls = 1 /\ q.basicRuns = 0

\* C9: when the page fetch of the local analysis fails, the analysis request
\* ends with an error reported to the caller, stores no analysis row and
\* changes no website's last-analyzed marker: it issues no write at all.
C9_FetchFailureIsFatal ==
    /\ [](\A r \in Slots :
            FetchFailed(req[r]) =>
                /\ req[r].pc = "done"
                /\ req[r].res = [type |-> "error", msg |-> MsgAnalysisError]
                /\ req[r].dbWrites = 0
                /\ req[r].analysisId = NULL)
    /\ [][\A r \in Slots :
            (~FetchFailed(req[r]) /\ FetchFailed(req'[r])) =>
                analyses' = analyses /\ websites' = websites]_vars

\* An analysis request whose primary call threw and whose page fetch failed
\* has ended with the error.
C9_Witness ==
    \E r \in Slots :
        /\ FetchFailed(req[r]) /\ req[r].pc = "done"
        /\ req[r].mlCalls = 1 /\ ~req[r].useMLService
        /\ req[r].res.msg = MsgAnalysisError

\* ------------------------------------------------------------------------
\* C10: an analysis request (full analysis or quick-analyze API) with a
\* missing URL is rejected at once: it has ended, and the primary backend,
\* the page's server and the database have seen nothing of it.
C10_MissingUrlRejected ==
    \A r \in Slots :
        (req[r].kind \in {"analyze", "quick"} /\ req[r].url = <<>>) =>
            /\ req[r].pc = "done"
            /\ req[r].mlCalls = 0 /\ req[r].fetchCalls = 0 /\ req[r].dbWrites = 0
            /\ req[r].analysisId = NULL
            /\ req[r].res = IF req[r].kind = "analyze"
                            THEN [type |-> "error", msg |-> MsgProvideUrl]
                            ELSE [type |-> "400", msg |-> MsgUrlRequired]

\* A full analysis request and a quick-analyze request without URL have both
\* been rejected.
C10_Witness ==
    \E r1, r2 \in Slots :
        /\ req[r1].kind = "analyze" /\ req[r1].url = <<>> /\ req[r1].pc = "done"
        /\ req[r2].kind = "quick" /\ req[r2].url = <<>> /\ req[r2].pc = "done"
        /\ analyses = <<>>

\* ------------------------------------------------------------------------
\* The categories seo_analyses has a score column for.
StoredCategories == {"title", "meta", "content", "technical", "performance"}

\* The score column of a category in a row of seo_analyses.
ScoreColumn(row, category) ==
    CASE category = "title" -> row.title_score
      [] category = "meta" -> row.meta_score
      [] category = "content" -> row.content_score
      [] category = "technical" -> row.technical_score
      [] category = "performance" -> row.performance_score

\* The INSERT of the analysis request q has thrown.
InsertFailed(q) ==
    /\ q.kind = "analyze" /\ q.pc = "done"
    /\ q.dbWrites = 1 /\ q.analysisId = NULL

TitleLengths == {0, 4, 29, 30, 45, 60, 61}
MetaLengths == {0, 119, 120, 140, 160, 161}
H1Counts == {0, 1, 2}
WordCounts == {0, 120, 299, 300, 500}
LoadTimes == {0, 1200, 1999, 2000, 3000, 3001, 3500, 3999, 4000}

\* The pages a fetch may return.
Pages ==
    {PageOf(t, m, h, w, mobile, l) :
        t \in TitleLengths, m \in MetaLengths, h \in H1Counts, w \in WordCounts,
        mobile \in BOOLEAN, l \in LoadTimes}

\* performBasicAnalysis(url) called, its page fetch awaited.
BasicCall(url) == [Idle EXCEPT !.kind = "basic", !.pc = "fetch", !.normalizedUrl = url]

\* A handler that has read req.body.url and is about to check and normalize it.
NormalizeCall(url) == [Idle EXCEPT !.kind = "normalize", !.pc = "normalize", !.url = url]

\* The calls looked at on their own.
PureCalls == {BasicCall(SchemeHttps \o Host)} \cup {NormalizeCall(url) : url \in Urls}

InitScore ==
    /\ websites = InitWebsites
    /\ edits = <<>>
    /\ analyses = <<>>
    /\ now = 0
    /\ started = 1
    /\ dbFaults = 0
    /\ \E call \in PureCalls : req = [r \in Slots |-> IF r = 1 THEN call ELSE Idle]

\* The fetch returns a page and performBasicAnalysis returns its result.
BasicAnalysis(r) ==
    \E page \in Pages :
        /\ req[r].kind = "basic" /\ req[r].pc = "fetch"
        /\ LET q == req[r]
           IN  req' = [req EXCEPT ![r] =
                          [q EXCEPT !.fetchCalls = @ + 1,
                                    !.analysisData = performBasicAnalysis(q.normalizedUrl, page),
                                    !.basicRuns = @ + 1,
                                    !.pc = "done"]]
        /\ UNCHANGED <<websites, edits, analyses, now, started, dbFaults>>

\* if (!url) ... return; then the normalization.
NormalizeInput(r) ==
    /\ req[r].kind = "normalize" /\ req[r].pc = "normalize"
    /\ LET q == req[r]
       IN  req' = [req EXCEPT ![r] =
                      IF Missing(q.url)
                      THEN Respond(q, "error", MsgProvideUrl)
                      ELSE [q EXCEPT !.normalizedUrl = NormalizeUrl(q.url), !.pc = "done"]]
    /\ UNCHANGED <<websites, edits, analyses, now, started, dbFaults>>

NextScore ==
    \E r \in Slots :
        \/ BasicAnalysis(r)
        \/ NormalizeInput(r)

\* One call of a function of the analysis, for every input.
SpecScore == InitScore /\ [][NextScore]_vars

\* ------------------------------------------------------------------------
\* The six categories of a score breakdown.
Categories == {"title", "meta", "content", "technical", "performance", "social"}

\* The weights of the overall score, in percent; the social score has no term
\* in the sum.
Weights == [title |-> 15, meta |-> 15, content |-> 25, technical |-> 25, performance |-> 20]

\* The sum of f over S.
RECURSIVE SumOver(_, _)
SumOver(f, S) ==
    IF S = {} THEN 0
    ELSE LET c == CHOOSE x \in S : TRUE IN f[c] + SumOver(f, S \ {c})

\* The weighted sum of the six scores, in hundredths, when the social score
\* is given the weight socialWeight.
WeightedSum(scores, socialWeight) ==
    SumOver([c \in Categories |->
                scores[c] * (IF c \in DOMAIN Weights THEN Weights[c] ELSE socialWeight)],
            Categories)

\* A call of performBasicAnalysis has returned.
BasicDone(q) == q.kind = "basic" /\ q.pc = "done"

\* C12: for every result of the local analysis each of the six category
\* scores is an integer in [0,100] and overall is the weighted sum of the six
\* scores rounded to the nearest integer (a half rounded up).  The weights are
\* those of the code's sum; the social score is always 0, so the sum is the
\* same whether the social score is given no weight or the 10 percent of the
\* rule table.
C12_OverallIsRoundedWeightedSum ==
    \A r \in Slots :
        BasicDone(req[r]) =>
            LET data == req[r].analysisData
            IN  /\ DOMAIN data.scores = Categories
                /\ \A c \in Categories : data.scores[c] \in 0..100
                /\ \A socialWeight \in {0, 10} :
                      LET sum == WeightedSum(data.scores, socialWeight)
                      IN  sum - 50 < 100 * data.overall_score
                          /\ 100 * data.overall_score <= sum + 50

\* The result for a page whose weighted sum ends in a half (40.5, rounded to
\* 41): the page of example 1.
C12_Witness ==
    \E r \in Slots :
        /\ BasicDone(req[r])
        /\ req[r].analysisData.features = PageExample1
        /\ WeightedSum(req[r].analysisData.scores, 0) = 4050
        /\ req[r].analysisData.overall_score = 41

\* ------------------------------------------------------------------------
\* Grades from the worst to the best.
GradeRank(grade) ==
    CASE grade = "D" -> 0 [] grade = "C" -> 1 [] grade = "B" -> 2 [] grade = "A" -> 3

\* C13: the grade of the local analysis is a step function of overall: A iff
\* overall >= 80, B iff 60 <= overall < 80, C iff 40 <= overall < 60, D iff
\* overall < 40; and it is monotonic: no overall score above that of a result
\* is graded worse, none below is graded better.
C13_GradeIsStepFunction ==
    \A r \in Slots :
        BasicDone(req[r]) =>
            LET overall == req[r].analysisData.overall_score
                grade == req[r].analysisData.grade
            IN  /\ grade \in {"A", "B", "C", "D"}
                /\ grade = "A" <=> overall >= 80
                /\ grade = "B" <=> (60 <= overall /\ overall < 80)
                /\ grade = "C" <=> (40 <= overall /\ overall < 60)
                /\ grade = "D" <=> overall < 40
                /\ \A other \in 0..100 :
                      /\ other >= overall => GradeRank(gradeOf(other)) >= GradeRank(grade)
                      /\ other <= overall => GradeRank(gradeOf(other)) <= GradeRank(grade)

\* A result below the last threshold: overall 39, grade D.
C13_Witness ==
    \E r \in Slots :
        /\ BasicDone(req[r])
        /\ req[r].analysisData.overall_score = 39
        /\ req[r].analysisData.grade = "D"

\* ------------------------------------------------------------------------
\* The place of a category in the rule chain, and of a severity.
CategoryRank(category) ==
    CASE category = "title" -> 1 [] category = "meta" -> 2 [] category = "content" -> 3
      [] category = "technical" -> 4 [] category = "performance" -> 5
SeverityRank(type) ==
    CASE type = "critical" -> 1 [] type = "warning" -> 2 [] type = "info" -> 3

\* C14: the issue list of the local analysis is ordered by category in the
\* order title, meta, content, technical, performance, and within one
\* category by severity, critical before warning before info.
C14_IssuesOrdered ==
    \A r \in Slots :
        BasicDone(req[r]) =>
            LET issues == req[r].analysisData.issues
            IN  \A i, j \in DOMAIN issues :
                    i < j =>
                        /\ issues[i].category \in Categories \ {"social"}
                        /\ issues[i].type \in {"critical", "warning", "info"}
                        /\ CategoryRank(issues[i].category) <= CategoryRank(issues[j].category)
                        /\ issues[i].category = issues[j].category =>
                              SeverityRank(issues[i].type) <= SeverityRank(issues[j].type)

\* A result with an issue of every category, two of them of the category
\* content: the critical missing H1 before the warning thin content.
C14_Witness ==
    \E r \in Slots :
        /\ BasicDone(req[r])
        /\ LET issues == req[r].analysisData.issues
           IN  /\ Len(issues) = 6
               /\ issues[3] = Issue("critical", "content", "Missing H1 heading")
               /\ issues[4] = Issue("warning", "content", "Thin content")

\* ------------------------------------------------------------------------
\* The result for a page with a short title and no meta description.
ShortTitleNoMeta(q) ==
    /\ BasicDone(q)
    /\ q.analysisData.features.title_length > 0
    /\ q.analysisData.features.title_length < 30
    /\ q.analysisData.features.meta_description_length = 0

\* The places of an issue in a list.
PlacesOf(issues, message) == {i \in DOMAIN issues : issues[i].message = message}

\* C15 as claimed: for a page with a short title and no meta description the
\* title score is the low tier (60), the meta score is 0, and the critical
\* 'missing meta description' issue is ranked before the warning 'title too
\* short' issue.
C15_Claimed ==
    \A r \in Slots :
        ShortTitleNoMeta(req[r]) =>
            LET data == req[r].analysisData
            IN  /\ data.scores.title = 60
                /\ data.scores.meta = 0
                /\ \E i \in PlacesOf(data.issues, "Missing meta description"),
                      j \in PlacesOf(data.issues, "Title too short") :
                        /\ data.issues[i].type = "critical"
                        /\ data.issues[j].type = "warning"
                        /\ i < j

\* C15 as amended: for such a page the title score is the low tier (60), the
\* meta score is 0, and the issue list has the warning 'title too short'
\* first and the critical 'missing meta description' second: the category
\* title comes before the category meta.
C15_ShortTitleBeforeMissingMeta ==
    \A r \in Slots :
        ShortTitleNoMeta(req[r]) =>
            LET data == req[r].analysisData
            IN  /\ data.scores.title = 60
                /\ data.scores.meta = 0
                /\ PlacesOf(data.issues, "Title too short") = {1}
                /\ PlacesOf(data.issues, "Missing meta description") = {2}
                /\ data.issues[1].type = "warning"
                /\ data.issues[2].type = "critical"

\* The result for the page of example 1: title of length 4, no meta
\* description.
C15_Witness ==
    \E r \in Slots :
        /\ ShortTitleNoMeta(req[r])
        /\ req[r].analysisData.features = PageExample1
        /\ req[r].analysisData.issues[1].message = "Title too short"
        /\ req[r].analysisData.issues[2].message = "Missing meta description"

\* ------------------------------------------------------------------------
\* The keys of the primary backend's analyze response that the handler reads.
ResponseKeys == {"overall_score", "grade", "scores", "features", "issues", "suggestions"}

\* C16: the result of the local analysis has the structure of the primary
\* backend's analyze response: the keys overall_score, grade, scores (with
\* the six categories), features, issues and suggestions; and the stored row
\* and the rendered result of a request are the same projections of its
\* analysis result whichever path ran, the local result's scores, grade and
\* issues reaching the page as they are.
C16_SameShapeSameProjection ==
    \A r \in Slots :
        req[r].kind = "analyze" =>
            LET q == req[r]
                data == q.analysisData
            IN  /\ q.basicRuns = 1 =>
                    /\ ResponseKeys \subseteq DOMAIN data
                    /\ ResponseKeys \subseteq DOMAIN MLWellFormed
                    /\ DOMAIN data.scores = DOMAIN MLWellFormed.scores
                    /\ DOMAIN data.scores = Categories
                    /\ WellFormed(data)
                /\ q.res.type = "render" =>
                    /\ analyses[q.analysisId] =
                          AnalysisRow(q.analysisId, q.websiteId, q.userId,
                                      q.normalizedUrl, data)
                    /\ q.render = RenderResult(analyses[q.analysisId], data, q.useMLService)
                /\ (q.res.type = "render" /\ q.basicRuns = 1) =>
                    /\ \A c \in Categories : q.render.scores[c] = data.scores[c]
                    /\ q.render.scores.overall = data.overall_score
                    /\ q.render.grade = data.grade
                    /\ q.render.issues = data.issues
                    /\ analyses[q.analysisId].overall_score = data.overall_score
                    /\ \A c \in StoredCategories :
                          ScoreColumn(analyses[q.analysisId], c) = data.scores[c]

\* A request served by the primary backend and one served by the local
\* analysis have both stored their row and rendered their result.
C16_Witness ==
    \E r1, r2 \in Slots :
        /\ req[r1].kind = "analyze" /\ req[r1].res.type = "render"
        /\ req[r1].useMLService /\ req[r1].analysisData = MLWellFormed
        /\ req[r2].kind = "analyze" /\ req[r2].res.type = "render"
        /\ req[r2].basicRuns = 1 /\ ~req[r2].useMLService
        /\ Len(analyses) = 2

\* ------------------------------------------------------------------------
\* The URL starts with http:// or https://.
HasScheme(url) == StartsWith(url, SchemeHttp) \/ StartsWith(url, SchemeHttps)

\* A handler has normalized the URL of its request.
Normalized(q) == q.kind = "normalize" /\ q.pc = "done" /\ q.res.type = "none"

\* C17: the normalization of the URL of a request (analysis, quick-analyze,
\* add-website) returns the URL unchanged when it starts with http:// or
\* https://, and otherwise the URL prefixed with https://; the result always
\* starts with a scheme, and normalizing the result again changes nothing.
C17_NormalizeUrl ==
    \A r \in Slots :
        Normalized(req[r]) =>
            LET url == req[r].url
                normalizedUrl == req[r].normalizedUrl
            IN  /\ HasScheme(url) => normalizedUrl = url
                /\ ~HasScheme(url) => normalizedUrl = SchemeHttps \o url
                /\ HasScheme(normalizedUrl)
                /\ NormalizeUrl(normalizedUrl) = normalizedUrl

\* A URL with the scheme http:// has been left as it is (and a URL that only
\* begins like a scheme, 'http', is among the inputs).
C17_Witness ==
    \E r \in Slots :
        /\ Normalized(req[r])
        /\ req[r].url = SchemeHttp \o Host
        /\ req[r].normalizedUrl = SchemeHttp \o Host

\* ------------------------------------------------------------------------
\* C18: the success message of an apply request says demo mode if and only
\* if the push call to the platform connector failed; whenever the connector
\* call succeeded the message is the verified 'applied to <provider>' one,
\* also when a persistence write of the request fails once.  (Violated: a
\* throw of the try block's UPDATE lands in catch (pushError) as a failed
\* push does.)
C18_DemoIffPushFailed ==
    \A r \in Slots :
        (ApplyDone(r) /\ req[r].pushCalls = 1) =>
            LET q == req[r]
                provider == q.rows[1].provider
            IN  /\ q.res.msg = MsgDemo(provider) => q.pushResponse = "throws"
                /\ (q.pushResponse = "throws" /\ q.res.type = "success") =>
                      q.res.msg = MsgDemo(provider)
                /\ q.pushResponse = "ok" =>
                      q.res = [type |-> "success", msg |-> MsgApplied(provider)]

\* ------------------------------------------------------------------------
\* The request at r is about to update the marker of website w, or has.
MarkerStep(r, w) ==
    /\ req[r].kind = "analyze" /\ req[r].pc = "marker" /\ req[r].websiteId = w
    /\ req[r].analysisId \in DOMAIN analyses
    /\ analyses[req[r].analysisId].website_id = w

\* The marker's UPDATE of the request q has thrown.
MarkerFailed(q) ==
    /\ q.kind = "analyze" /\ q.pc = "done" /\ q.res.type = "error"
    /\ q.dbWrites = 2 /\ q.analysisId # NULL

\* C19: in an analysis request that names a website the last-analyzed marker
\* is updated only after the request's analysis row has been stored: a
\* marker changes only in the marker step of a request whose row, of that
\* website, is in seo_analyses, and that step writes no row; the writes are
\* separate, so a failure of the marker's UPDATE leaves the row stored and the
\* markers as they were; and no website has a refreshed marker without a
\* stored analysis of it.
C19_MarkerAfterRow ==
    /\ [](/\ \A w \in DOMAIN websites :
                websites[w].last_analyzed # NULL =>
                    \E i \in DOMAIN analyses : analyses[i].website_id = w
          /\ \A r \in Slots :
                MarkerFailed(req[r]) => req[r].analysisId \in DOMAIN analyses)
    /\ [][/\ \A w \in DOMAIN websites :
                websites'[w].last_analyzed # websites[w].last_analyzed =>
                    /\ analyses' = analyses
                    /\ \E r \in Slots : MarkerStep(r, w) /\ req'[r].res.type = "render"
          /\ \A r \in Slots :
                (~MarkerFailed(req[r]) /\ MarkerFailed(req'[r])) =>
                    /\ websites' = websites
                    /\ analyses' = analyses]_vars

\* A request that named website 1 has stored its row and then failed at the
\* marker's UPDATE: the analysis is stored, the marker is not refreshed.
C19_Witness ==
    \E r \in Slots :
        /\ MarkerFailed(req[r])
        /\ req[r].websiteId = 1
        /\ analyses[req[r].analysisId].website_id = 1
        /\ websites[1].last_analyzed = NULL

\* ------------------------------------------------------------------------
\* The view request at r has rendered a stored analysis.
Viewed(r) == req[r].kind = "view" /\ req[r].res.type = "render"

\* The analysis request at ra has stored and rendered the result of a local
\* analysis, and the view request at rv has rendered that stored analysis.
ViewedLocal(rv, ra) ==
    /\ Viewed(rv)
    /\ req[ra].kind = "analyze" /\ req[ra].res.type = "render"
    /\ req[ra].basicRuns = 1
    /\ req[ra].analysisId = req[rv].render.analysis.id

\* C20: for every stored analysis of the local analysis the grade reported
\* when it is viewed later is the threshold grade of its stored overall score
\* (A >= 80, B >= 60, C >= 40, else D), and so it is the grade the local
\* analysis reported when the analysis was made.  (Violated: the view grades
\* every score below 60 as 'C'.)
C20_ViewGradeIsThresholdGrade ==
    \A rv, ra \in Slots :
        ViewedLocal(rv, ra) =>
            /\ req[rv].render.grade = gradeOf(req[rv].render.analysis.overall_score)
            /\ req[rv].render.grade = req[ra].render.grade

\* ------------------------------------------------------------------------
\* The places of the issues of a category in a list.
IssuesOf(issues, category) == {i \in DOMAIN issues : issues[i].category = category}

\* C21: the title score of the local analysis is 100 if the trimmed title's
\* length is in [30,60], 60 if the title is present with any other length,
\* and 0 if the title is absent; and a title issue is emitted exactly when
\* the title score is below 100.
C21_TitleScoreAndIssue ==
    \A r \in Slots :
        BasicDone(req[r]) =>
            LET data == req[r].analysisData
                len == data.features.title_length
                score == data.scores.title
            IN  /\ (len >= 30 /\ len <= 60) => score = 100
                /\ (len > 0 /\ (len < 30 \/ len > 60)) => score = 60
                /\ len = 0 => score = 0
                /\ IssuesOf(data.issues, "title") # {} <=> score < 100

\* The result for a title of 61 characters: score 60 and the issue 'Title
\* too long'.
C21_Witness ==
    \E r \in Slots :
        /\ BasicDone(req[r])
        /\ req[r].analysisData.features.title_length = 61
        /\ req[r].analysisData.scores.title = 60
        /\ req[r].analysisData.issues[1] = Issue("warning", "title", "Title too long")

\* ------------------------------------------------------------------------
\* C22: the content score of the local analysis is a base tier from the H1
\* count plus a bonus from the word count: the difference between the scores
\* of two word counts is the same for every H1 count; exactly one H1 gives a
\* better score than none or several with the same words; at least 300 words
\* give a better score than fewer with the same H1 tags; and for exactly one
\* H1 and at least 300 words the score is at least 70 and at most 100.
C22_ContentScore ==
    \A r \in Slots :
        BasicDone(req[r]) =>
            LET data == req[r].analysisData
                h == data.features.h1_count
                w == data.features.word_count
                c == data.scores.content
            IN  /\ \A h2 \in H1Counts, w2 \in WordCounts :
                      /\ c - contentScore(h, w2) = contentScore(h2, w) - contentScore(h2, w2)
                      /\ (h = 1 /\ h2 # 1) => contentScore(h2, w) < c
                      /\ (w >= 300 /\ w2 < 300) => contentScore(h, w2) < c
                      /\ (w >= 300 /\ w2 >= 300) => contentScore(h, w2) = c
                /\ (h = 1 /\ w >= 300) => (c >= 70 /\ c <= 100)
                /\ c \in 0..100

\* The result for the page of example 2: one H1 and 500 words, content 100.
C22_Witness ==
    \E r \in Slots :
        /\ BasicDone(req[r])
        /\ req[r].analysisData.features = PageExample2
        /\ req[r].analysisData.scores.content = 100

\* ------------------------------------------------------------------------
\* The best score of each category that has rules.
BestTier == [title |-> 100, meta |-> 100, content |-> 100, technical |-> 80, performance |-> 100]

\* The category has an issue in the result exactly when its score is below
\* its best tier.
IssueIffBelowBest(data, category) ==
    IssuesOf(data.issues, category) # {} <=> data.scores[category] < BestTier[category]

\* C30 as claimed: in every result of the local analysis each of the
\* categories title, meta, content, technical and performance whose score is
\* below the best tier of that category has at least one issue of that
\* category, and a category at its best tier has none.
C30_Claimed ==
    \A r \in Slots :
        BasicDone(req[r]) =>
            \A category \in DOMAIN BestTier :
                IssueIffBelowBest(req[r].analysisData, category)

\* C30 as amended: that holds of the categories title, content and
\* technical; the category meta has an issue exactly when the meta
\* description is absent (score 0; none at the score 60 of a description of
\* another length than 120..160), and the category performance has an issue
\* exactly when the load time is above 3 seconds (always at the score 40,
\* never at 100, and at 70 only above 3 seconds).
C30_IssuesAndTiers ==
    \A r \in Slots :
        BasicDone(req[r]) =>
            LET data == req[r].analysisData
            IN  /\ \A category \in {"title", "content", "technical"} :
                      IssueIffBelowBest(data, category)
                /\ IssuesOf(data.issues, "meta") # {} <=> data.scores.meta = 0
                /\ data.scores.meta = 0 <=> data.features.meta_description_length = 0
                /\ IssuesOf(data.issues, "performance") # {} <=> data.features.load_time > 3000
                /\ data.scores.performance = 40 => IssuesOf(data.issues, "performance") # {}
                /\ data.scores.performance = 100 => IssuesOf(data.issues, "performance") = {}

\* A result with a meta description of 119 characters and a load time of
\* 2 seconds: the scores of meta (60) and performance (70) are below their
\* best tiers and neither category has an issue.
C30_Witness ==
    \E r \in Slots :
        /\ BasicDone(req[r])
        /\ req[r].analysisData.features.meta_description_length = 119
        /\ req[r].analysisData.features.load_time = 2000
        /\ req[r].analysisData.scores.meta = 60
        /\ req[r].analysisData.scores.performance = 70
        /\ IssuesOf(req[r].analysisData.issues, "meta") = {}
        /\ IssuesOf(req[r].analysisData.issues, "performance") = {}

\* ------------------------------------------------------------------------
\* The records i and j are of one website and one field.
SameField(t, i, j) ==
    t[i].website_id = t[j].website_id /\ t[i].field_type = t[j].field_type

\* C23: nothing keeps the pending edits of one website and field to one: the
\* INSERT of a save-edit request that does not throw adds a pending record
\* also when a pending record for the same website and field exists, and
\* that record stays pending; and a step that applies or cancels one record
\* leaves every other record as it was, a pending one pending.
C23_PendingEditsCoexist ==
    [][/\ \A r \in Slots :
            (req[r].kind = "save" /\ InsertStep(r) /\ ~Caught(req'[r])) =>
                /\ Len(edits') = Len(edits) + 1
                /\ edits'[Len(edits')].status = "pending"
                /\ edits'[Len(edits')].website_id = req[r].websiteId
                /\ edits'[Len(edits')].field_type = req[r].field_type
                /\ \A i \in DOMAIN edits : edits'[i] = edits[i]
       /\ \A i \in DOMAIN edits :
            (i \in DOMAIN edits' /\ edits'[i].status # edits[i].status) =>
                \A j \in DOMAIN edits \ {i} :
                    j \in DOMAIN edits' /\ edits'[j] = edits[j]
      ]_vars

\* Two records of one website and field, saved by save-edit requests; an
\* apply request for the later one has answered with success and the record
\* is applied, and the earlier one, pending since before the later one was
\* saved, is still pending.
C23_Witness ==
    /\ Len(edits) = 2
    /\ SameField(edits, 1, 2)
    /\ edits[1].status = "pending"
    /\ edits[2].status = "applied"
    /\ \E ra, rs \in Slots :
          /\ ApplyDone(ra) /\ req[ra].editId = 2
          /\ req[ra].res.type = "success"
          /\ req[rs].kind = "save" /\ req[rs].res.msg = MsgEditSaved

\* ------------------------------------------------------------------------
\* The apply-AI-suggestion request at r takes this step.
ApplyAIStep(r) == req[r].kind = "applyAI" /\ req'[r] # req[r] /\ req'[r].kind = "applyAI"
                  /\ req[r].pc # "done"

\* The apply-AI-suggestion request at r has ended after its INSERT.
ApplyAIDone(r) == req[r].kind = "applyAI" /\ req[r].pc = "done" /\ req[r].insertedId # NULL

\* C24: a step of an apply-AI-suggestion request marks the created record
\* applied only when the website has a connected account and the push call
\* has succeeded; when the website has no connected account no push call is
\* made, and when the push call fails the handler does not fall back to a
\* simulated apply: in both cases the request issues no UPDATE, its steps
\* leave the created record pending, and it answers success with the 'saved'
\* message.
C24_ApplyAILeavesPending ==
    /\ [][\A r \in Slots :
            ApplyAIStep(r) =>
                /\ (\E i \in DOMAIN edits :
                        i \in DOMAIN edits' /\ edits'[i].status # edits[i].status) =>
                       /\ req[r].rows[1].connected_account_id # NULL
                       /\ req[r].pushResponse = "ok"
                       /\ \A i \in DOMAIN edits :
                              edits'[i] # edits[i] =>
                                  i = req[r].insertedId /\ edits'[i].status = "applied"
                /\ (req[r].pc = "insert" /\ edits' # edits
                        /\ req[r].rows[1].connected_account_id = NULL) =>
                       /\ edits'[req'[r].insertedId].status = "pending"
                       /\ req'[r].pc = "done"
                /\ (req[r].pc = "push" /\ req'[r].pushResponse = "throws") =>
                       /\ edits' = edits
                       /\ req'[r].pc = "done"
          ]_vars
    /\ [](\A r \in Slots :
            (ApplyAIDone(r) /\ req[r].pushResponse # "ok") =>
                /\ req[r].res = [type |-> "success", msg |-> MsgAISaved]
                /\ req[r].dbWrites = 1
                /\ req[r].pushCalls =
                       (IF req[r].rows[1].connected_account_id = NULL THEN 0 ELSE 1))

\* Two apply-AI-suggestion requests have ended with the 'saved' message, one
\* for the website without a connected account, with no push call, and one
\* whose push call failed; both created records are pending.
C24_Witness ==
    \E r1, r2 \in Slots :
        /\ ApplyAIDone(r1) /\ ApplyAIDone(r2)
        /\ req[r1].rows[1].connected_account_id = NULL /\ req[r1].pushCalls = 0
        /\ req[r2].pushCalls = 1 /\ req[r2].pushResponse = "throws"
        /\ req[r1].res.msg = MsgAISaved /\ req[r2].res.msg = MsgAISaved
        /\ edits[req[r1].insertedId].status = "pending"
        /\ edits[req[r2].insertedId].status = "pending"

\* ------------------------------------------------------------------------
\* C25: in every reachable state an edit record has applied_at set exactly
\* when its status is applied; pending and cancelled records carry none.
C25_AppliedAtIffApplied ==
    \A i \in DOMAIN edits :
        /\ edits[i].applied_at # NULL <=> edits[i].status = "applied"
        /\ edits[i].status \in {"pending", "cancelled"} => edits[i].applied_at = NULL

\* An applied record with applied_at set next to a cancelled record without:
\* the one created and applied by an apply-AI-suggestion request, the other
\* cancelled by a cancel request.
C25_Witness ==
    \E ra, rc \in Slots :
        /\ ApplyAIDone(ra) /\ req[ra].res.msg = MsgAIApplied(JoinProvider(req[ra].rows[1]))
        /\ CancelDone(rc) /\ req[rc].res.msg = MsgEditCancelled
        /\ req[rc].editId # req[ra].insertedId
        /\ edits[req[ra].insertedId].status = "applied"
        /\ edits[req[ra].insertedId].applied_at # NULL
        /\ edits[req[rc].editId].status = "cancelled"
        /\ edits[req[rc].editId].applied_at = NULL

\* ------------------------------------------------------------------------
\* C26: an apply request on a record that it found applied or cancelled
\* makes no push call and leaves the record's applied_at as it was, so that
\* at most one push call is made for a record over its lifetime.  (Violated:
\* the apply handler does not look at the status it has read.)
C26_NoPushOnResolved ==
    \A r \in Slots :
        (/\ req[r].kind = "apply" /\ Len(req[r].rows) = 1
         /\ req[r].rows[1].status \in {"applied", "cancelled"})
            => /\ req[r].pushCalls = 0
               /\ edits[req[r].editId].applied_at = req[r].rows[1].applied_at

\* ------------------------------------------------------------------------
\* The record the apply or apply-AI-suggestion request q works on.
PushedEdit(q) == IF q.kind = "apply" THEN q.editId ELSE q.insertedId

\* C27: when an apply or apply-AI-suggestion request whose push call was
\* acknowledged has ended, its record is not pending, also when a
\* persistence write has failed.  (Violated: in the apply-AI-suggestion
\* handler a throw of the UPDATE lands in catch (pushErr), which only logs.)
C27_PushedNeverLeftPending ==
    \A r \in Slots :
        (/\ req[r].kind \in {"apply", "applyAI"} /\ req[r].pc = "done"
         /\ req[r].pushResponse = "ok")
            => edits[PushedEdit(req[r])].status # "pending"

\* ------------------------------------------------------------------------
\* The request q is an apply or cancel request for a record of another user.
ForeignEdit(q) ==
    /\ q.kind \in {"apply", "cancel"}
    /\ q.editId \in DOMAIN edits
    /\ edits[q.editId].user_id # q.userId

\* C28: an apply or cancel request for an edit record of another user is
\* answered as not found ('Edit not found', 'Edit not found or already
\* processed'; 'Error cancelling edit' when cancel's statement throws), makes
\* no push call, and its steps leave the table seo_edits, with the record's
\* status and applied_at, as it is.
C28_ForeignEditUntouched ==
    /\ [](\A r \in Slots :
            ForeignEdit(req[r]) =>
                /\ req[r].pc = "done"
                /\ req[r].pushCalls = 0
                /\ req[r].res.type = "error"
                /\ req[r].kind = "apply" =>
                       req[r].res.msg = MsgEditNotFound /\ req[r].dbWrites = 0
                /\ req[r].kind = "cancel" =>
                       req[r].res.msg \in {MsgNotFoundOrProcessed, MsgErrorCancelling})
    /\ [][\A r \in Slots :
            (req'[r] # req[r] /\ req'[r].kind \in {"apply", "cancel"}
                /\ req'[r].editId \in DOMAIN edits
                /\ edits[req'[r].editId].user_id # req'[r].userId) => edits' = edits
         ]_vars

\* User 2 has asked to apply and to cancel a pending record of user 1: both
\* requests were answered as not found, without a push call, and the record
\* is pending with applied_at unset.
C28_Witness ==
    \E ra, rc \in Slots :
        /\ ApplyDone(ra) /\ CancelDone(rc)
        /\ ForeignEdit(req[ra]) /\ ForeignEdit(req[rc])
        /\ req[ra].editId = req[rc].editId
        /\ req[ra].res.msg = MsgEditNotFound
        /\ req[rc].res.msg = MsgNotFoundOrProcessed
        /\ req[ra].pushCalls = 0
        /\ edits[req[ra].editId].status = "pending"
        /\ edits[req[ra].editId].applied_at = NULL

\* ------------------------------------------------------------------------
\* The analysis request q names a website of another user.
ForeignWebsite(q) ==
    /\ q.kind = "analyze"
    /\ q.websiteId \in DOMAIN websites
    /\ websites[q.websiteId].user_id # q.userId

\* C29: an analysis request changes the last-analyzed marker, and records
\* website_id in its row, only for a website of the requesting user: a
\* request that names another user's website stores no row attached to it
\* and never comes to the UPDATE of the marker, whatever the (well-formed)
\* result of its analysis.  (Violated: the handler takes websiteId from the
\* request body and never compares the website's owner with the session's
\* user.)
C29_OnlyOwnWebsites ==
    \A r \in Slots :
        (ForeignWebsite(req[r]) /\ WellFormed(req[r].analysisData)) =>
            /\ req[r].analysisId = NULL
            /\ req[r].pc # "marker"
            /\ req[r].dbWrites < 2
            /\ \A a \in DOMAIN analyses :
                   analyses[a].user_id = req[r].userId =>
                       analyses[a].website_id # req[r].websiteId
====
